---------------------------- MODULE Spec2Model ----------------------------
(***************************************************************************)
(* Model of doxcer's configuration-resolution core (src/src/lib.rs):       *)
(* load_env_robust (discovery of a .env file and additive load into the    *)
(* process environment), env_secret (plaintext-or-encrypted secret         *)
(* resolution), env_fernet_key and decrypt_fernet.                         *)
(*                                                                         *)
(* Conventions.                                                            *)
(*  - Option<T> is a sequence: None == <<>>, Some(x) == <<x>>.             *)
(*  - A Path is the sequence of its components; an absolute path starts    *)
(*    with the root component "/", the path "." is <<".">> and the empty   *)
(*    path "" is <<>>.                                                     *)
(*  - The process environment maps every variable name to an Option of    *)
(*    the string env::var returns for it.  Variables holding bytes that    *)
(*    are not valid Unicode are outside the model.                         *)
(*  - A Result is a record: Ok(v) or Err(kind, args) where kind names the  *)
(*    message template of the Err(String) the code builds and args are    *)
(*    the values interpolated into it.                                     *)
(***************************************************************************)
EXTENDS Naturals, Sequences, FiniteSets, TLC

VARIABLES
    env,    \* the process environment: [EnvNames -> Option(String)]
    files,  \* the filesystem: a function from each existing path to its body
    cwd,    \* Option(Path): what env::current_dir() yields
    exe,    \* Option(Path): what env::current_exe() yields
    last    \* the record of the last call made into the library: its
            \* arguments, what it returned, the environment it started from
            \* and, for a load_env_robust call that repeats the call right
            \* before it with the same argument, that call's record (prev)

vars == <<env, files, cwd, exe, last>>

-----------------------------------------------------------------------------
(* Option and Result *)

None == <<>>

Some(x) == <<x>>

IsSome(o) == o /= <<>>

Unwrap(o) == o[1]

Ok(v) == [ok |-> TRUE, val |-> <<v>>, kind |-> "Ok", args |-> <<>>]

Err(k, a) == [ok |-> FALSE, val |-> <<>>, kind |-> k, args |-> a]

-----------------------------------------------------------------------------
(* Bounds of the model *)

\* the largest number of files that exist in an initial filesystem
MaxFiles == 2

-----------------------------------------------------------------------------
(* The universe of names, values and paths *)

SecretNames == {"API_KEY"}

\* format!("{name}_ENC")
EncNameOf(name) == CASE name = "API_KEY" -> "API_KEY_ENC"

EnvNames == {"API_KEY", "API_KEY_ENC", "ENCRYPTION_PASSWORD", "DOXCER_ENV_PATH"}

\* PathBuf::from(String): the components of the path a string spells
PathBufFrom(s) ==
    CASE s = "/etc/a.env" -> <<"/", "etc", "a.env">>
      [] s = "/o/.env"    -> <<"/", "o", ".env">>
      [] s = ""           -> <<>>
      [] OTHER            -> <<s>>

IsAbsolute(p) == Len(p) > 0 /\ p[1] = "/"

\* Path::parent: None for the root and for the empty path
parent(p) ==
    IF p = <<>> \/ p = <<"/">> THEN None ELSE Some(SubSeq(p, 1, Len(p) - 1))

\* Path::join with a relative component
join(p, c) == Append(p, c)


-----------------------------------------------------------------------------
(* The filesystem *)

\* every path a candidate list of the model can hold a file at
AllPaths ==
    { <<"/", "o", ".env">>, <<"/", "etc", "a.env">>,
      <<"/", "w", "config", ".env">>, <<"/", "w", ".env">>,
      <<"/", "b", "d", "config", ".env">>, <<"/", "b", "d", ".env">>,
      <<"/", "b", "config", ".env">>, <<"/", "b", ".env">>,
      <<"/", "config", ".env">>, <<"/", ".env">> }

\* A body is what sits at a path: "DIR" is a directory (it exists, reading it
\* fails); the others are files of KEY=VALUE lines, <<"BAD">> a line the
\* parser rejects.
BodyIds == {"B1", "B2", "DIR"}

Readable(b) == b /= "DIR"

BodyLines(b) ==
    CASE b = "B1" -> << <<"DOXCER_ENV_PATH", "/o/.env">>,
                        <<"API_KEY", "fromfile">>,
                        <<"API_KEY", "second">> >>
      [] b = "B2" -> << <<"API_KEY_ENC", "T1">>,
                        <<"ENCRYPTION_PASSWORD", "K1">>,
                        <<"BAD">>,
                        <<"API_KEY", "late">> >>
      [] OTHER    -> << >>

\* the path the operating system looks at for p: a relative path is taken
\* from the process's real working directory, "." components dropped
Resolve(p, c) ==
    IF IsAbsolute(p) THEN Some(p)
    ELSE IF IsSome(c) THEN Some(Unwrap(c) \o SelectSeq(p, LAMBDA x : x /= "."))
    ELSE None

\* Path::exists (lib.rs:91)
exists(p, fs, c) ==
    /\ p /= <<>>
    /\ IsSome(Resolve(p, c))
    /\ Unwrap(Resolve(p, c)) \in DOMAIN fs

BodyAt(p, fs, c) == fs[Unwrap(Resolve(p, c))]

-----------------------------------------------------------------------------
(* The process environment *)

\* env::var(name).ok()
env_var(e, name) == e[name]

\* a buggy load: the file's value replaces one already set
SetOverwrite(e, k, v) == [e EXCEPT ![k] = Some(v)]

\* dotenvy's load of one KEY=VALUE line: the variable is set only if absent
SetIfAbsent(e, k, v) == IF IsSome(e[k]) THEN e ELSE [e EXCEPT ![k] = Some(v)]

\* a buggy load: it returns after the first variable it sets
RECURSIVE LoadOnePerCall(_, _, _)
LoadOnePerCall(e, lines, i) ==
    IF i > Len(lines) THEN [ok |-> TRUE, env |-> e]
    ELSE IF lines[i] = <<"BAD">> THEN [ok |-> FALSE, env |-> e]
    ELSE IF IsSome(e[lines[i][1]]) THEN LoadOnePerCall(e, lines, i + 1)
    ELSE [ok |-> TRUE, env |-> SetIfAbsent(e, lines[i][1], lines[i][2])]

\* dotenvy's load of the lines from i on: a rejected line ends the load with
\* an error, the variables set by the lines before it stay set
RECURSIVE LoadLines(_, _, _)
LoadLines(e, lines, i) ==
    IF i > Len(lines) THEN [ok |-> TRUE, env |-> e]
    ELSE IF lines[i] = <<"BAD">> THEN [ok |-> FALSE, env |-> e]
    ELSE LoadLines(SetIfAbsent(e, lines[i][1], lines[i][2]), lines, i + 1)

\* dotenvy::from_path (lib.rs:92): open the file, then load its lines
from_path(e, body) ==
    IF ~Readable(body) THEN [ok |-> FALSE, env |-> e]
    ELSE LoadLines(e, BodyLines(body), 1)

-----------------------------------------------------------------------------
(* load_env_robust *)

\* env::current_dir().unwrap_or_else(|_| PathBuf::from(".")) (lib.rs:68)
cwd_dir(c) == IF IsSome(c) THEN Unwrap(c) ELSE <<".">>

\* current_exe().ok().and_then(parent).unwrap_or_else(".") (lib.rs:69-72)
exe_dir(x) ==
    IF IsSome(x) /\ IsSome(parent(Unwrap(x))) THEN Unwrap(parent(Unwrap(x)))
    ELSE <<".">>

\* lib.rs:73
exe_parent(x) == parent(exe_dir(x))

\* lib.rs:74
exe_grandparent(x) ==
    IF IsSome(exe_parent(x)) THEN parent(Unwrap(exe_parent(x))) ELSE None

\* lib.rs:76-78
candidates_in(root) == << join(join(root, "config"), ".env"), join(root, ".env") >>

\* a buggy push: an absent root is replaced by "."
PushRootOrDot(o) ==
    IF IsSome(o) THEN candidates_in(Unwrap(o)) ELSE candidates_in(<<".">>)

\* if let Some(p) = &root { candidates.extend(candidates_in(p)); } (lib.rs:86-87)
PushRoot(o) == IF IsSome(o) THEN candidates_in(Unwrap(o)) ELSE <<>>

\* if let Some(p) = opt { candidates.push(p); } (lib.rs:81-82)
PushOpt(o) == IF IsSome(o) THEN <<Unwrap(o)>> ELSE <<>>

\* lib.rs:66
explicit_env(e) ==
    IF IsSome(env_var(e, "DOXCER_ENV_PATH"))
    THEN Some(PathBufFrom(Unwrap(env_var(e, "DOXCER_ENV_PATH"))))
    ELSE None

\* the candidate list (lib.rs:80-87)
Candidates(override_path, e, c, x) ==
    PushOpt(override_path) \o PushOpt(explicit_env(e))
        \o candidates_in(cwd_dir(c))
        \o candidates_in(exe_dir(x))
        \o PushRoot(exe_parent(x))
        \o PushRoot(exe_grandparent(x))

\* the indexes of the candidates that exist
ExistingAt(cands, fs, c) == { i \in 1..Len(cands) : exists(cands[i], fs, c) }

Min(S) == CHOOSE i \in S : \A j \in S : i <= j

Max(S) == CHOOSE i \in S : \A j \in S : i >= j

\* a buggy scan: the last existing candidate wins
FindLast(cands, fs, c) ==
    IF ExistingAt(cands, fs, c) = {} THEN None
    ELSE Some(cands[Max(ExistingAt(cands, fs, c))])

\* candidates.into_iter().find(|p| p.exists()) (lib.rs:91)
Find(cands, fs, c) ==
    IF ExistingAt(cands, fs, c) = {} THEN None
    ELSE Some(cands[Min(ExistingAt(cands, fs, c))])

\* a buggy report: the scan's list loses its first entry
NotFoundTail(tried) == Err("NotFound", IF tried = <<>> THEN tried ELSE Tail(tried))

\* Err(format!("Could not find a .env file. Searched:\n  - {}", searched))
\* (lib.rs:96-101)
NotFound(tried) == Err("NotFound", tried)

\* the whole call (lib.rs:52-103): its result, the environment it leaves,
\* the candidate list it built and the candidate it selected
load_env_robust(override_path, e, fs, c, x) ==
    LET candidates == Candidates(override_path, e, c, x)
        found      == Find(candidates, fs, c)
    IN  IF IsSome(found)
        THEN LET ld == from_path(e, BodyAt(Unwrap(found), fs, c))
             IN  [ result     |-> IF ld.ok THEN Ok(Unwrap(found))
                                  ELSE Err("LoadFailed", <<Unwrap(found)>>),
                   env        |-> ld.env,
                   candidates |-> candidates,
                   found      |-> found ]
        ELSE [ result     |-> NotFound(candidates),
               env        |-> e,
               candidates |-> candidates,
               found      |-> None ]

-----------------------------------------------------------------------------
(* Fernet *)

\* the strings that are structurally valid Fernet keys (url-safe base64 of 32
\* bytes); every other string is not
ValidKeys == {"K1", "K2"}

\* Fernet::new(key): Some for a structurally valid key (lib.rs:41, 179)
Fernet_new(key) == IF key \in ValidKeys THEN Some(key) ELSE None

\* Fernet::decrypt: the bytes of a token made under this key, None for any
\* other token.  "T1" is "hello" under K1, "T2" is bytes that are not UTF-8
\* under K1, "T3" is "world" under K2; every other string is no token.
Fernet_decrypt(key, token) ==
    CASE key = "K1" /\ token = "T1" -> Some([utf8 |-> TRUE,  text |-> "hello"])
      [] key = "K1" /\ token = "T2" -> Some([utf8 |-> FALSE, text |-> ""])
      [] key = "K2" /\ token = "T3" -> Some([utf8 |-> TRUE,  text |-> "world"])
      [] OTHER                      -> None

\* String::from_utf8
from_utf8(bytes) == IF bytes.utf8 THEN Some(bytes.text) ELSE None

\* a buggy primitive: every failure is reported as "Decryption failed"
decrypt_fernet_collapsed(encrypted_value_b64, fernet_key) ==
    IF ~IsSome(Fernet_new(fernet_key)) THEN Err("DecryptionFailed", <<>>)
    ELSE LET decrypted == Fernet_decrypt(Unwrap(Fernet_new(fernet_key)),
                                         encrypted_value_b64)
         IN  IF ~IsSome(decrypted) THEN Err("DecryptionFailed", <<>>)
             ELSE IF ~IsSome(from_utf8(Unwrap(decrypted)))
                  THEN Err("DecryptionFailed", <<>>)
                  ELSE Ok(Unwrap(from_utf8(Unwrap(decrypted))))

\* lib.rs:25-46.  The three Err strings are "Invalid Fernet key",
\* "Decryption failed" and "Decrypted bytes were not valid UTF-8".
decrypt_fernet(encrypted_value_b64, fernet_key) ==
    IF ~IsSome(Fernet_new(fernet_key)) THEN Err("InvalidKey", <<>>)
    ELSE LET decrypted == Fernet_decrypt(Unwrap(Fernet_new(fernet_key)),
                                         encrypted_value_b64)
         IN  IF ~IsSome(decrypted) THEN Err("DecryptionFailed", <<>>)
             ELSE IF ~IsSome(from_utf8(Unwrap(decrypted)))
                  THEN Err("InvalidEncoding", <<>>)
                  ELSE Ok(Unwrap(from_utf8(Unwrap(decrypted))))

-----------------------------------------------------------------------------
(* env_secret and env_fernet_key *)

\* what a call reports besides its result: the variables it read and the
\* (token, key) pairs it handed to decrypt_fernet
Outcome(r, reads, decrypts) == [result |-> r, reads |-> reads, decrypts |-> decrypts]

\* a buggy first step: an empty plaintext value counts as absent
PlainNonEmpty(e, name) ==
    IF IsSome(env_var(e, name)) /\ Unwrap(env_var(e, name)) /= ""
    THEN env_var(e, name) ELSE None

\* a buggy first step: the encrypted variant, when present, wins
PlainUnlessEnc(e, name) ==
    IF IsSome(env_var(e, EncNameOf(name))) THEN None ELSE env_var(e, name)

\* if let Ok(v) = env::var(name) (lib.rs:147)
Plain(e, name) == env_var(e, name)

\* a buggy key choice: ENCRYPTION_PASSWORD wins over the caller's key
KeyEnvFirst(e, key_override) ==
    IF IsSome(env_var(e, "ENCRYPTION_PASSWORD"))
    THEN [key |-> env_var(e, "ENCRYPTION_PASSWORD"), reads |-> {"ENCRYPTION_PASSWORD"}]
    ELSE [key |-> key_override, reads |-> {"ENCRYPTION_PASSWORD"}]

\* lib.rs:155-160: the caller's key if supplied, else ENCRYPTION_PASSWORD
KeyFor(e, key_override) ==
    IF IsSome(key_override) THEN [key |-> key_override, reads |-> {}]
    ELSE [key |-> env_var(e, "ENCRYPTION_PASSWORD"), reads |-> {"ENCRYPTION_PASSWORD"}]

\* lib.rs:128-163
env_secret(e, name, key_override) ==
    IF IsSome(Plain(e, name))
    THEN Outcome(Ok(Unwrap(Plain(e, name))), {name}, <<>>)
    ELSE LET enc_name == EncNameOf(name)
             enc      == env_var(e, enc_name)
             k        == KeyFor(e, key_override)
         IN  IF ~IsSome(enc)
             THEN Outcome(Err("MissingBoth", <<name, enc_name>>),
                          {name, enc_name}, <<>>)
             ELSE IF ~IsSome(k.key)
             THEN Outcome(Err("MissingKey", <<>>),
                          {name, enc_name} \cup k.reads, <<>>)
             ELSE Outcome(decrypt_fernet(Unwrap(enc), Unwrap(k.key)),
                          {name, enc_name} \cup k.reads,
                          << <<Unwrap(enc), Unwrap(k.key)>> >>)

\* a buggy validation: a malformed key is reported as missing
env_fernet_key_conflated(e) ==
    IF ~IsSome(env_var(e, "ENCRYPTION_PASSWORD")) THEN Err("KeyMissing", <<>>)
    ELSE IF ~IsSome(Fernet_new(Unwrap(env_var(e, "ENCRYPTION_PASSWORD"))))
         THEN Err("KeyMissing", <<>>)
         ELSE Ok(Unwrap(env_var(e, "ENCRYPTION_PASSWORD")))

\* lib.rs:166-181.  The Err strings are "Missing ENCRYPTION_PASSWORD" and
\* "ENCRYPTION_PASSWORD is not a valid Fernet key".
env_fernet_key(e) ==
    IF ~IsSome(env_var(e, "ENCRYPTION_PASSWORD")) THEN Err("KeyMissing", <<>>)
    ELSE IF ~IsSome(Fernet_new(Unwrap(env_var(e, "ENCRYPTION_PASSWORD"))))
         THEN Err("KeyInvalid", <<>>)
         ELSE Ok(Unwrap(env_var(e, "ENCRYPTION_PASSWORD")))

-----------------------------------------------------------------------------
(* The state machine: calls into the library, in any order *)

Overrides == {None, Some(<<"/", "o", ".env">>)}

KeyOverrides == {None, Some("K2"), Some("badkey")}

\* no load_env_robust call with the same argument came right before
NoPrev ==
    [ is |-> FALSE, candidates |-> <<>>, found |-> None, result |-> Ok(<<>>),
      envBefore |-> [n \in EnvNames |-> None] ]

NoCall ==
    [ op |-> "none", override_path |-> None, name |-> "", key_override |-> None,
      candidates |-> <<>>, found |-> None, result |-> Ok(""),
      reads |-> {}, decrypts |-> <<>>, envBefore |-> env, prev |-> NoPrev ]

EmptyEnv == [n \in EnvNames |-> None]

\* the filesystems with at most MaxFiles entries
FileSystems ==
    UNION { [S -> BodyIds] : S \in { T \in SUBSET AllPaths : Cardinality(T) <= MaxFiles } }

\* the full layout: a working directory, and an executable two levels deep
FullCwd == Some(<<"/", "w">>)

FullExe == Some(<<"/", "b", "d", "doxcer">>)

DiscoveryEnvs ==
    { [EmptyEnv EXCEPT !["DOXCER_ENV_PATH"] = d] : d \in {None, Some("/etc/a.env")} }

\* discovery under the full layout, over every filesystem
InitDiscovery ==
    /\ env \in DiscoveryEnvs
    /\ files \in FileSystems
    /\ cwd = FullCwd
    /\ exe = FullExe

\* discovery under every layout (working directory or executable path
\* unavailable, executable at depth 0, 1 or 2), over the filesystems whose
\* files all hold B1
InitLayout ==
    /\ env \in DiscoveryEnvs
    /\ files \in { f \in FileSystems : \A p \in DOMAIN f : f[p] = "B1" }
    /\ cwd \in {None, FullCwd}
    /\ exe \in {None, Some(<<"/", "doxcer">>), Some(<<"/", "b", "doxcer">>), FullExe}

\* environments that exercise secret resolution
InitSecret ==
    /\ env \in { [EmptyEnv EXCEPT !["API_KEY"] = a, !["API_KEY_ENC"] = t,
                                  !["ENCRYPTION_PASSWORD"] = k] :
                   a \in {None, Some(""), Some("plain")},
                   t \in {None, Some("T1"), Some("T2"), Some("T3"), Some("garbage")},
                   k \in {None, Some("K1"), Some("K2"), Some("badkey")} }
    /\ files \in { f \in FileSystems : DOMAIN f = {} }
    /\ cwd = FullCwd
    /\ exe = FullExe

Init ==
    /\ InitDiscovery \/ InitLayout \/ InitSecret
    /\ last = NoCall

\* a call of load_env_robust(override_path)
LoadEnvRobust ==
    \E o \in Overrides :
        LET r == load_env_robust(o, env, files, cwd, exe)
        IN  /\ env' = r.env
            /\ last' = [ op |-> "load", override_path |-> o, name |-> "",
                         key_override |-> None, candidates |-> r.candidates,
                         found |-> r.found, result |-> r.result,
                         reads |-> {"DOXCER_ENV_PATH"}, decrypts |-> <<>>,
                         envBefore |-> env,
                         prev |-> IF last.op = "load" /\ last.override_path = o
                                  THEN [ is |-> TRUE,
                                         candidates |-> last.candidates,
                                         found |-> last.found,
                                         result |-> last.result,
                                         envBefore |-> last.envBefore ]
                                  ELSE NoPrev ]
            /\ UNCHANGED <<files, cwd, exe>>

\* a call of env_secret(name, key_override)
EnvSecret ==
    \E name \in SecretNames, ko \in KeyOverrides :
        LET r == env_secret(env, name, ko)
        IN  /\ last' = [ op |-> "secret", override_path |-> None, name |-> name,
                         key_override |-> ko, candidates |-> <<>>,
                         found |-> None, result |-> r.result,
                         reads |-> r.reads, decrypts |-> r.decrypts,
                         envBefore |-> env, prev |-> NoPrev ]
            /\ UNCHANGED <<env, files, cwd, exe>>

\* a call of env_fernet_key()
EnvFernetKey ==
    /\ last' = [ op |-> "key", override_path |-> None, name |-> "",
                 key_override |-> None, candidates |-> <<>>, found |-> None,
                 result |-> env_fernet_key(env),
                 reads |-> {"ENCRYPTION_PASSWORD"}, decrypts |-> <<>>,
                 envBefore |-> env, prev |-> NoPrev ]
    /\ UNCHANGED <<env, files, cwd, exe>>

Next == LoadEnvRobust \/ EnvSecret \/ EnvFernetKey

Spec == Init /\ [][Next]_vars

-----------------------------------------------------------------------------
(* What the properties below are stated in *)

\* p exists in the filesystem of the current state
ExistsNow(p) == exists(p, files, cwd)

\* what sits at the existing path p
BodyNow(p) == BodyAt(p, files, cwd)

\* a body dotenvy loads without error: a readable file without rejected lines
Loads(b) ==
    /\ Readable(b)
    /\ \A k \in 1..Len(BodyLines(b)) : BodyLines(b)[k] /= <<"BAD">>

\* i is the lowest index of an existing candidate of c
FirstExisting(c, i) ==
    /\ i \in 1..Len(c)
    /\ ExistsNow(c[i])
    /\ \A j \in 1..(i - 1) : ~ExistsNow(c[j])

\* the entries the explicit argument and DOXCER_ENV_PATH contribute
ArgPart(o) == IF o = None THEN <<>> ELSE <<o[1]>>

VarPart(d) ==
    CASE d = None               -> <<>>
      [] d = Some("/etc/a.env") -> << <<"/", "etc", "a.env">> >>
      [] d = Some("/o/.env")    -> << <<"/", "o", ".env">> >>

\* the eight root-derived candidates of the full layout, in the fixed order
FullRoots ==
    << <<"/", "w", "config", ".env">>,      <<"/", "w", ".env">>,
       <<"/", "b", "d", "config", ".env">>, <<"/", "b", "d", ".env">>,
       <<"/", "b", "config", ".env">>,      <<"/", "b", ".env">>,
       <<"/", "config", ".env">>,           <<"/", ".env">> >>

FullLayout == cwd = FullCwd /\ exe = FullExe

\* the candidates built from the placeholder directory "."
DotPair == << <<".", "config", ".env">>, <<".", ".env">> >>

\* the candidates built from the empty path, the parent of "."
EmptyPair == << <<"config", ".env">>, <<".env">> >>

\* the root-derived candidates when a root that cannot be determined
\* contributes nothing
RootsDeterminedOnly ==
    (IF cwd = None THEN <<>> ELSE SubSeq(FullRoots, 1, 2))
    \o (CASE exe = None                          -> <<>>
          [] exe = Some(<<"/", "doxcer">>)       -> SubSeq(FullRoots, 7, 8)
          [] exe = Some(<<"/", "b", "doxcer">>)  -> SubSeq(FullRoots, 5, 8)
          [] exe = FullExe                       -> SubSeq(FullRoots, 3, 8))

\* the root-derived candidates when an unavailable working directory or
\* executable directory is replaced by ".", whose parent is the empty path
RootsWithPlaceholder ==
    (IF cwd = None THEN DotPair ELSE SubSeq(FullRoots, 1, 2))
    \o (CASE exe = None                          -> DotPair \o EmptyPair
          [] exe = Some(<<"/", "doxcer">>)       -> SubSeq(FullRoots, 7, 8)
          [] exe = Some(<<"/", "b", "doxcer">>)  -> SubSeq(FullRoots, 5, 8)
          [] exe = FullExe                       -> SubSeq(FullRoots, 3, 8))

PathVar == "DOXCER_ENV_PATH"

KeyVar == "ENCRYPTION_PASSWORD"

-----------------------------------------------------------------------------
(* C1 *)

\* C1 as stated: whenever at least one candidate exists, load_env_robust
\* returns the existing candidate with the lowest index.  It fails when that
\* candidate cannot be loaded (a directory, a rejected line): the call then
\* returns an error and no path.
C1_ReturnsFirstExisting ==
    last.op = "load" =>
        \A i \in 1..Len(last.candidates) :
            FirstExisting(last.candidates, i) => last.result = Ok(last.candidates[i])

\* C1 amended: the candidate list is in the fixed order; when at least one
\* candidate exists the one with the lowest index is selected and no other
\* is tried: the call returns that path if the file loads and a LoadFailed
\* error naming that path if it does not; a returned path always exists
\* and no earlier candidate exists.
C1_SelectsFirstExisting ==
    last.op = "load" =>
        /\ FullLayout =>
             last.candidates = ArgPart(last.override_path)
                                 \o VarPart(last.envBefore[PathVar]) \o FullRoots
        /\ \A i \in 1..Len(last.candidates) :
             FirstExisting(last.candidates, i) =>
                /\ last.found = Some(last.candidates[i])
                /\ IF Loads(BodyNow(last.candidates[i]))
                   THEN last.result = Ok(last.candidates[i])
                   ELSE last.result = Err("LoadFailed", <<last.candidates[i]>>)
        /\ last.result.ok =>
             /\ ExistsNow(Unwrap(last.result.val))
             /\ \E i \in 1..Len(last.candidates) :
                  /\ FirstExisting(last.candidates, i)
                  /\ Unwrap(last.result.val) = last.candidates[i]

\* a load that returned a candidate which is neither the first nor the last
\* of its list, while a later candidate exists too
C1_Witness ==
    /\ last.op = "load"
    /\ last.result.ok
    /\ \E i, j \in 1..Len(last.candidates) :
         /\ 1 < i /\ i < j
         /\ last.candidates[i] = Unwrap(last.result.val)
         /\ ExistsNow(last.candidates[j])
         /\ last.candidates[j] /= last.candidates[i]

-----------------------------------------------------------------------------
(* C2 *)

-----------------------------------------------------------------------------
(* C4 *)

\* C4: when no candidate exists the call returns the NotFound error whose
\* list is the candidate list, entry for entry, and the environment is as
\* it was before the call.
C4_NotFoundListsAll ==
    (last.op = "load" /\ \A i \in 1..Len(last.candidates) : ~ExistsNow(last.candidates[i])) =>
        /\ last.result = Err("NotFound", last.candidates)
        /\ FullLayout =>
             last.result.args = ArgPart(last.override_path)
                                  \o VarPart(last.envBefore[PathVar]) \o FullRoots
        /\ env = last.envBefore

\* a load that found none of its ten candidates
C4_Witness ==
    /\ last.op = "load"
    /\ last.result.kind = "NotFound"
    /\ Len(last.result.args) = 10
    /\ last.override_path /= None
    /\ last.envBefore[PathVar] /= None

-----------------------------------------------------------------------------
(* C3 *)

-----------------------------------------------------------------------------
(* C5 *)

-----------------------------------------------------------------------------
(* C6 *)

-----------------------------------------------------------------------------
(* C7 *)

\* C7 as stated: every failure of the decryption step comes back from
\* env_secret as DecryptionFailed identifying the secret name.  It fails:
\* env_secret returns decrypt_fernet's result as it is.
C7_AlwaysDecryptionFailed ==
    (last.op = "secret" /\ last.decrypts /= <<>> /\ ~last.result.ok) =>
        /\ last.result.kind = "DecryptionFailed"
        /\ \E i \in 1..Len(last.result.args) : last.result.args[i] = last.name

\* C7 amended: a failure of the decryption step comes back unchanged, as one
\* of the primitive's three failures: InvalidKey when the key is not
\* structurally valid, DecryptionFailed when the token is rejected under a
\* valid key, InvalidEncoding when the decrypted bytes are not valid text;
\* none of them identifies the secret name.
C7_PrimitiveFailureUnchanged ==
    (last.op = "secret" /\ last.decrypts /= <<>>) =>
        LET token == last.decrypts[1][1]
            key   == last.decrypts[1][2]
        IN  /\ key \notin ValidKeys => last.result = Err("InvalidKey", <<>>)
            /\ (key \in ValidKeys /\ Fernet_decrypt(key, token) = None) =>
                 last.result = Err("DecryptionFailed", <<>>)
            /\ (key \in ValidKeys /\ Fernet_decrypt(key, token) /= None
                  /\ ~Fernet_decrypt(key, token)[1].utf8) =>
                 last.result = Err("InvalidEncoding", <<>>)
            /\ ~last.result.ok =>
                 /\ last.result.kind \in {"InvalidKey", "DecryptionFailed", "InvalidEncoding"}
                 /\ last.result.args = <<>>

\* a resolution whose decrypted bytes were not valid text
C7_Witness ==
    /\ last.op = "secret"
    /\ last.decrypts = << <<"T2", "K1">> >>
    /\ last.result.kind = "InvalidEncoding"

-----------------------------------------------------------------------------
(* C8 *)

\* C8 as stated: a NAME set to the empty string is not returned as the
\* secret; resolution goes on to the NAME_ENC lookup as if NAME were absent.
\* It fails: the empty value is returned.
C8_EmptyTreatedAsAbsent ==
    (last.op = "secret" /\ last.envBefore[last.name] = Some("")) =>
        /\ last.result /= Ok("")
        /\ "API_KEY_ENC" \in last.reads

\* C8 amended: env_secret returns NAME's value verbatim whenever NAME is
\* set, the empty string included: a NAME set to the empty string is
\* returned as the secret and NAME_ENC is not looked up; the NAME_ENC
\* lookup happens only when NAME is not set.
C8_EmptyReturnedVerbatim ==
    last.op = "secret" =>
        /\ last.envBefore[last.name] = Some("") =>
             /\ last.result = Ok("")
             /\ "API_KEY_ENC" \notin last.reads
        /\ "API_KEY_ENC" \in last.reads <=> last.envBefore[last.name] = None
        /\ (last.result.ok /\ last.decrypts = <<>>) =>
             last.result.val = last.envBefore[last.name]

\* a resolution of a NAME set to the empty string next to a valid token and
\* its key
C8_Witness ==
    /\ last.op = "secret"
    /\ last.envBefore["API_KEY"] = Some("")
    /\ last.envBefore["API_KEY_ENC"] = Some("T1")
    /\ last.envBefore[KeyVar] = Some("K1")
    /\ last.result = Ok("")

-----------------------------------------------------------------------------
(* C9 *)

\* the second of two load_env_robust calls in succession with the same
\* argument did what the first did and changed nothing
SecondCallRepeatsFirst ==
    /\ last.candidates = last.prev.candidates
    /\ last.found = last.prev.found
    /\ last.result = last.prev.result
    /\ env = last.envBefore

\* C9 as stated: the second of two calls in succession with the same
\* argument builds the same candidate list, selects the same file and leaves
\* the environment as the first call left it, also when the loaded file
\* defines DOXCER_ENV_PATH.  It fails when the first call introduces
\* DOXCER_ENV_PATH.
C9_SecondCallIdempotent ==
    (last.op = "load" /\ last.prev.is) => SecondCallRepeatsFirst

\* C9 amended: the same, provided the first call did not introduce
\* DOXCER_ENV_PATH (the variable is after the first call what it was before
\* it).
C9_IdempotentUnlessPathVarIntroduced ==
    (last.op = "load" /\ last.prev.is
        /\ last.envBefore[PathVar] = last.prev.envBefore[PathVar]) =>
        SecondCallRepeatsFirst

\* a second call after a first call that introduced variables, none of them
\* DOXCER_ENV_PATH, from a file that a rejected line cut short
C9_Witness ==
    /\ last.op = "load"
    /\ last.prev.is
    /\ last.envBefore[PathVar] = last.prev.envBefore[PathVar]
    /\ last.envBefore /= last.prev.envBefore
    /\ last.result.kind = "LoadFailed"

-----------------------------------------------------------------------------
(* C10 *)

=============================================================================
